---- MODULE Spec2Model ----
(***************************************************************************)
(* A model of the REIMU RV32I toolchain driver: the three-stage pipeline   *)
(* of main (assemble, link, simulate), the simulation loop with its        *)
(* timeout counter, the linker's immediate evaluator and the assembler's   *)
(* split_command helper.                                                   *)
(*                                                                         *)
(* Machine integers are little-endian sequences of 16-bit limbs, so that   *)
(* std::size_t (4 limbs) and target_size_t (2 limbs) keep their width and  *)
(* wrap as the C++ unsigned types do.                                      *)
(***************************************************************************)
EXTENDS Integers, Sequences, FiniteSets, TLC

----------------------------------------------------------------------------
(* Bounds of the model.                                                    *)

\* Largest small timeout value the configuration is drawn from.
MaxTimeout == 2
\* Largest number of assembly files on the command line.
MaxFiles == 2
\* Largest section start address handed out by the modelled linker.
MaxStart == 2
\* Largest section storage size.
MaxSize == 1
\* Longest Tree immediate that is evaluated.
MaxTreeLen == 2
\* Longest line remainder handed to split_command.
MaxLen == 4
\* Largest N of split_command<N>.
MaxN == 3

\* The loop is followed for at most this many executed instructions.
MaxSteps == MaxTimeout + 1

----------------------------------------------------------------------------
(* Fixed-width unsigned arithmetic on limbs.                               *)

Base == 2^16
SizeLimbs == 4     \* std::size_t, 64 bits
TargetLimbs == 2   \* target_size_t, 32 bits
Bit12 == 4096      \* 1 << 12
Half12 == Bit12 \div 2   \* 0x800, bit 11 of a 12-bit field

Zeros(n) == [i \in 1..n |-> 0]
Ones(n) == [i \in 1..n |-> Base - 1]

\* The n-limb value of a natural number below 2^31.
FromNat(x, n) == [i \in 1..n |-> IF i = 1 THEN x % Base
                                 ELSE IF i = 2 THEN (x \div Base) % Base
                                 ELSE 0]

RECURSIVE AddC(_, _, _)
AddC(a, b, c) ==
    IF a = <<>> THEN <<>>
    ELSE LET s == Head(a) + Head(b) + c
         IN  <<s % Base>> \o AddC(Tail(a), Tail(b), s \div Base)

Not(a) == [i \in 1..Len(a) |-> Base - 1 - a[i]]

\* a + b and a - b modulo 2^(16 * Len(a)).
Add(a, b) == AddC(a, b, 0)
Sub(a, b) == AddC(a, Not(b), 1)

\* The n-limb two's complement value of a (small) integer.
FromInt(z, n) == IF z >= 0 THEN FromNat(z, n) ELSE Sub(Zeros(n), FromNat(-z, n))

\* a >> 12 (logical) and a << 12, in the width of a.
Shr12(a) == [i \in 1..Len(a) |->
                (a[i] \div Bit12) + (IF i < Len(a) THEN (a[i + 1] % Bit12) * 16 ELSE 0)]
Shl12(a) == [i \in 1..Len(a) |->
                (a[i] % 16) * Bit12 + (IF i > 1 THEN a[i - 1] \div 16 ELSE 0)]

\* a & 0xFFF, in the width of a.
And0xFFF(a) == [i \in 1..Len(a) |-> IF i = 1 THEN a[1] % Bit12 ELSE 0]

\* Conversions between std::size_t and target_size_t.
ZExt(a, n) == [i \in 1..n |-> IF i <= Len(a) THEN a[i] ELSE 0]
Trunc(a, n) == SubSeq(a, 1, n)

\* The low 12 bits of a, sign-extended to the width of a.
SExt12(a) ==
    LET lo == a[1] % Bit12
    IN  IF lo >= Half12
        THEN [i \in 1..Len(a) |-> IF i = 1 THEN lo + (Base - Bit12) ELSE Base - 1]
        ELSE [i \in 1..Len(a) |-> IF i = 1 THEN lo ELSE 0]

----------------------------------------------------------------------------
VARIABLES
    \* main and the simulation loop
    pc,             \* position of main / Interpreter / simulate
    nfiles,         \* config.assembly_files.size()
    mode,           \* "debug" or "normal": config.has_option("debug")
    cfg_timeout,    \* config.get_timeout(), <<>> until it is read
    assembled,      \* assemblies.size()
    result,         \* <<the Linker's LinkResult>>, or <<>> before linking
    memory_layout,  \* <<the layout simulate() runs on>>, or <<>>
    rf_pc,          \* RegisterFile's program counter, NoPc before it exists
    timeout,        \* the loop's std::size_t counter, <<>> before the loop
    advance_false,  \* rf.advance() has returned false
    tested,         \* calls of manager.test()
    fetched,        \* calls of icache.ifetch
    executed,       \* calls of an executor that returned
    exc,            \* exception in flight or caught
    message,        \* the panic's message
    exit_code,      \* the process exit status, or "none"
    \* the linker's evaluator
    epc,            \* position of the linker's use of the Evaluator
    global_table,   \* Evaluator::global_table, a set of <<name, location>>
    local_table,    \* Evaluator::local_table: <<>> is the null pointer
    position,       \* Evaluator::position, <<>> while not yet set
    imm,            \* the immediate last evaluated
    value,          \* its outcome: <<"ok", word>> or <<failure, <<>>>>
    sym,            \* the symbol of an AUIPC / ADDI pair
    hi_val, lo_val, \* the pair's evaluated immediates
    pos_a, pos_b,   \* the pair's instruction addresses
    rd,             \* the pair's destination register
    \* split_command
    spc, line, cmd_n, ret

mainVars == <<pc, nfiles, mode, cfg_timeout, assembled, result, memory_layout,
              rf_pc, timeout, advance_false, tested, fetched, executed, exc,
              message, exit_code>>
evalVars == <<epc, global_table, local_table, position, imm, value, sym,
              hi_val, lo_val, pos_a, pos_b, rd>>
splitVars == <<spc, line, cmd_n, ret>>
vars == <<mainVars, evalVars, splitVars>>

----------------------------------------------------------------------------
(* The driver: main, Interpreter::Interpreter, Interpreter::simulate.      *)

SizeMax == Ones(SizeLimbs)

\* The values config.get_timeout() is drawn from: the small ones and the two
\* largest of std::size_t.
Timeouts == {FromNat(t, SizeLimbs) : t \in 0..MaxTimeout}
            \cup {SizeMax, Sub(SizeMax, FromNat(1, SizeLimbs))}

Sections == [start : 0..MaxStart, size : 0..MaxSize]

\* A table is a set of <<name, address>> entries, one per name.
\* position_table: no symbol, a symbol other than main, or main at an address.
\* The addresses a symbol or the program counter takes in the model.
Addresses == {0, MaxStart}

PositionTables == {{}, {<<"f", 0>>}}
                  \cup {{<<"main", p>>} : p \in Addresses}

count(table, name) == Cardinality({e \in table : e[1] = name})
at(table, name) == (CHOOSE e \in table : e[1] = name)[2]

NoPc == 0 - 1

LinkResults == [text : Sections, data : Sections, rodata : Sections,
                bss : Sections, position_table : PositionTables]

get_start_end(section) == <<section.start, section.start + section.size>>

check_no_overlap_weak(r) ==
    /\ get_start_end(r.text)[2] <= get_start_end(r.data)[1]
    /\ get_start_end(r.data)[2] <= get_start_end(r.rodata)[1]

\* The condition of check_no_overlap's runtime_assert.
check_no_overlap(r) ==
    /\ get_start_end(r.text)[2] <= get_start_end(r.data)[1]
    /\ get_start_end(r.data)[2] <= get_start_end(r.rodata)[1]
    /\ get_start_end(r.rodata)[2] <= get_start_end(r.bss)[1]

has_main_always(r) == TRUE

\* result.position_table.count("main") != 0
has_main(r) == count(r.position_table, "main") # 0

\* panic(msg): throws the PanicError that only main catches.
panic(msg) ==
    /\ pc' = "panic"
    /\ exc' = "PanicError"
    /\ message' = msg

NoThrow == UNCHANGED <<exc, message>>

\* The driver leaves the evaluator's and split_command's variables alone.
OnlyMain == UNCHANGED <<evalVars, splitVars>>

MainInit ==
    /\ pc = "ctor_assemble"
    /\ nfiles \in 1..MaxFiles
    /\ mode = "none"
    /\ cfg_timeout = <<>>
    /\ assembled = 0
    /\ result = <<>>
    /\ memory_layout = <<>>
    /\ rf_pc = NoPc
    /\ timeout = <<>>
    /\ advance_false = FALSE
    /\ tested = 0
    /\ fetched = 0
    /\ executed = 0
    /\ exc = "none"
    /\ message = "none"
    /\ exit_code = "none"

\* Interpreter::Interpreter, the loop over config.assembly_files: one file is
\* assembled, or its parse error ends the run.
Assemble ==
    /\ pc = "ctor_assemble"
    /\ assembled < nfiles
    /\ \E ok \in BOOLEAN :
         IF ok
         THEN /\ assembled' = assembled + 1
              /\ pc' = pc
              /\ NoThrow
         ELSE /\ panic("FailToParse")
              /\ UNCHANGED assembled
    /\ OnlyMain
    /\ UNCHANGED <<nfiles, mode, cfg_timeout, result, memory_layout, rf_pc,
                   timeout, advance_false, tested, fetched, executed, exit_code>>

LinkReadyEarly == assembled >= 1

\* The for loop over the files has ended.
LinkReady == assembled = nfiles

\* Linker{ assemblies }.get_result(): a link result, or a link error.
Link ==
    /\ pc = "ctor_assemble"
    /\ LinkReady
    /\ \/ /\ \E r \in LinkResults : result' = <<r>>
          /\ pc' = "ctor_check_main"
          /\ NoThrow
       \/ /\ panic("LinkError")
          /\ UNCHANGED result
    /\ OnlyMain
    /\ UNCHANGED <<nfiles, mode, cfg_timeout, assembled, memory_layout, rf_pc,
                   timeout, advance_false, tested, fetched, executed, exit_code>>

\* panic_if(result.position_table.count("main") == 0, "No main function found")
CheckMain ==
    /\ pc = "ctor_check_main"
    /\ IF has_main(result[1])
       THEN pc' = "ctor_check_overlap" /\ NoThrow
       ELSE panic("No main function found")
    /\ OnlyMain
    /\ UNCHANGED <<nfiles, mode, cfg_timeout, assembled, result, memory_layout,
                   rf_pc, timeout, advance_false, tested, fetched, executed,
                   exit_code>>

\* check_no_overlap(result)
CheckNoOverlap ==
    /\ pc = "ctor_check_overlap"
    /\ IF check_no_overlap(result[1])
       THEN pc' = "main_assemble" /\ NoThrow
       ELSE panic("Assertion failed")
    /\ OnlyMain
    /\ UNCHANGED <<nfiles, mode, cfg_timeout, assembled, result, memory_layout,
                   rf_pc, timeout, advance_false, tested, fetched, executed,
                   exit_code>>

\* interpreter.assemble(): the assemblies are those the constructor built.
CallAssemble ==
    /\ pc = "main_assemble"
    /\ pc' = "main_link"
    /\ OnlyMain
    /\ UNCHANGED <<nfiles, mode, cfg_timeout, assembled, result, memory_layout,
                   rf_pc, timeout, advance_false, tested, fetched, executed, exc,
                   message, exit_code>>

\* interpreter.link(): the checked link result becomes the memory layout.
CallLink ==
    /\ pc = "main_link"
    /\ memory_layout' = result
    /\ pc' = "simulate"
    /\ OnlyMain
    /\ UNCHANGED <<nfiles, mode, cfg_timeout, assembled, result, rf_pc, timeout,
                   advance_false, tested, fetched, executed, exc, message,
                   exit_code>>

\* layout.position_table.at("main")
start_pc(layout) == at(layout.position_table, "main")

\* Interpreter::simulate up to the call of simulate_normal / simulate_debug.
\* std::map::at throws std::out_of_range for a missing key, which main
\* reports as an internal error.
SimulateInit ==
    /\ pc = "simulate"
    /\ IF count(memory_layout[1].position_table, "main") # 0
       THEN /\ rf_pc' = start_pc(memory_layout[1])
            /\ mode' \in {"debug", "normal"}
            /\ cfg_timeout' \in Timeouts
            /\ timeout' = cfg_timeout'
            /\ pc' = "loop_test"
            /\ NoThrow
       ELSE /\ pc' = "unreachable"
            /\ exc' = "std::exception"
            /\ message' = "std::exception caught"
            /\ UNCHANGED <<rf_pc, mode, cfg_timeout, timeout>>
    /\ OnlyMain
    /\ UNCHANGED <<nfiles, assembled, result, memory_layout, advance_false,
                   tested, fetched, executed, exit_code>>

loop_cond_pre(t) == Sub(t, FromNat(1, SizeLimbs)) # Zeros(SizeLimbs)

\* The second operand of the loop condition, `timeout --> 0`, on the value
\* of timeout before the decrement.
loop_cond(t) == t # Zeros(SizeLimbs)

\* `while (rf.advance() && timeout --> 0)`: advance() is called; only when it
\* returns true is timeout compared with 0 and then decremented (modulo 2^64).
LoopTest ==
    /\ pc = "loop_test"
    /\ executed <= MaxSteps
    /\ \E adv \in BOOLEAN :
         IF adv
         THEN /\ timeout' = Sub(timeout, FromNat(1, SizeLimbs))
              /\ pc' = IF loop_cond(timeout)
                       THEN (IF mode = "debug" THEN "manager_test" ELSE "ifetch")
                       ELSE "tle_check"
              /\ UNCHANGED advance_false
         ELSE /\ advance_false' = TRUE
              /\ pc' = "tle_check"
              /\ UNCHANGED timeout
    /\ OnlyMain
    /\ UNCHANGED <<nfiles, mode, cfg_timeout, assembled, result, memory_layout,
                   rf_pc, tested, fetched, executed, exc, message, exit_code>>

\* manager.test(), simulate_debug only.
ManagerTest ==
    /\ pc = "manager_test"
    /\ tested' = tested + 1
    /\ pc' = "ifetch"
    /\ OnlyMain
    /\ UNCHANGED <<nfiles, mode, cfg_timeout, assembled, result, memory_layout,
                   rf_pc, timeout, advance_false, fetched, executed, exc,
                   message, exit_code>>

\* A FailToInterpret leaves the try block for its catch clause.
throw_FailToInterpret ==
    /\ pc' = "catch_fti"
    /\ exc' = "FailToInterpret"
    /\ UNCHANGED message

\* icache.ifetch(rf.get_pc(), hint): an executor, or an instruction fault.
IFetch ==
    /\ pc = "ifetch"
    /\ \/ /\ fetched' = fetched + 1
          /\ pc' = "exec"
          /\ NoThrow
       \/ /\ throw_FailToInterpret
          /\ UNCHANGED fetched
    /\ OnlyMain
    /\ UNCHANGED <<nfiles, mode, cfg_timeout, assembled, result, memory_layout,
                   rf_pc, timeout, advance_false, tested, executed, exit_code>>

\* hint = exe(rf, mem, dev): the instruction takes effect and sets the PC, or
\* it traps.
Exec ==
    /\ pc = "exec"
    /\ \/ /\ executed' = executed + 1
          /\ rf_pc' \in Addresses
          /\ pc' = "loop_test"
          /\ NoThrow
       \/ /\ throw_FailToInterpret
          /\ UNCHANGED <<executed, rf_pc>>
    /\ OnlyMain
    /\ UNCHANGED <<nfiles, mode, cfg_timeout, assembled, result, memory_layout,
                   timeout, advance_false, tested, fetched, exit_code>>

\* timeout + 1 == 0
tle_cond(t) == Add(t, FromNat(1, SizeLimbs)) = Zeros(SizeLimbs)

\* panic_if(timeout + 1 == 0, "Time Limit Exceeded")
TleCheck ==
    /\ pc = "tle_check"
    /\ IF tle_cond(timeout)
       THEN panic("Time Limit Exceeded")
       ELSE pc' = "print_details" /\ NoThrow
    /\ OnlyMain
    /\ UNCHANGED <<nfiles, mode, cfg_timeout, assembled, result, memory_layout,
                   rf_pc, timeout, advance_false, tested, fetched, executed,
                   exit_code>>

\* catch (FailToInterpret &e) { panic("{}", e.what(rf, mem, dev)); }
CatchFailToInterpret ==
    /\ pc = "catch_fti"
    /\ panic("FailToInterpret")
    /\ OnlyMain
    /\ UNCHANGED <<nfiles, mode, cfg_timeout, assembled, result, memory_layout,
                   rf_pc, timeout, advance_false, tested, fetched, executed,
                   exit_code>>

\* The rest of Interpreter::simulate and of main's try block.
PrintDetails ==
    /\ pc = "print_details"
    /\ pc' = "return"
    /\ OnlyMain
    /\ UNCHANGED <<nfiles, mode, cfg_timeout, assembled, result, memory_layout,
                   rf_pc, timeout, advance_false, tested, fetched, executed, exc,
                   message, exit_code>>

\* catch (dark::PanicError &e) { /* do nothing */ } ... return 0;
exit_after_panic == 0

\* main's catch of the PanicError, then its return statement.
CatchPanic ==
    /\ pc = "panic"
    /\ pc' = "exited"
    /\ exit_code' = exit_after_panic
    /\ OnlyMain
    /\ UNCHANGED <<nfiles, mode, cfg_timeout, assembled, result, memory_layout,
                   rf_pc, timeout, advance_false, tested, fetched, executed, exc,
                   message>>

\* return 0;
exit_normal == 0

\* main's return statement after the try block ran to its end.
MainReturn ==
    /\ pc = "return"
    /\ pc' = "exited"
    /\ exit_code' = exit_normal
    /\ OnlyMain
    /\ UNCHANGED <<nfiles, mode, cfg_timeout, assembled, result, memory_layout,
                   rf_pc, timeout, advance_false, tested, fetched, executed, exc,
                   message>>

----------------------------------------------------------------------------
(* The linker's Evaluator (include/linker/evaluate.h).                     *)
(*                                                                         *)
(* An immediate is <<"Int", word>>, <<"Str", name>>, <<"Rel", operand,     *)
(* immediate>> or <<"Tree", sequence of <<immediate, operator>> >>.        *)

Ok(w) == <<"ok", w>>
Fail(kind) == <<kind, <<>>>>

find(table, str) == {e \in table : e[1] = str}
location(entries) == (CHOOSE e \in entries : TRUE)[2]

get_symbol_position_global_first(str, L, G) ==
    IF find(G, str) # {} THEN Ok(location(find(G, str)))
    ELSE IF find(L, str) # {} THEN Ok(location(find(L, str)))
    ELSE Fail("Unknown symbol")

\* Evaluator::get_symbol_position: the local table, then the global table,
\* then the panic.
get_symbol_position(str, L, G) ==
    IF find(L, str) # {} THEN Ok(location(find(L, str)))
    ELSE IF find(G, str) # {} THEN Ok(location(find(G, str)))
    ELSE Fail("Unknown symbol")

\* split_lo_hi(value).hi and .lo
split_hi(v) == Shr12(Add(v, FromNat(Half12, TargetLimbs)))
split_lo(v) == SExt12(v)

\* (value - this->position) >> 12: value is converted to std::size_t, the
\* result back to target_size_t.
pcrel_hi(v, P) == Trunc(Shr12(Sub(ZExt(v, SizeLimbs), P)), TargetLimbs)

\* (value - this->position) & 0xFFF
pcrel_lo(v, P) == Trunc(And0xFFF(Sub(ZExt(v, SizeLimbs), P)), TargetLimbs)

tree_step_add_only(last_op, acc, v) ==
    IF last_op \in {"ADD", "SUB"} THEN Ok(Add(acc, v)) ELSE Fail("runtime_assert")

\* The switch of evaluate_tree on last_op.
tree_step(last_op, acc, v) ==
    IF last_op = "ADD" THEN Ok(Add(acc, v))
    ELSE IF last_op = "SUB" THEN Ok(Sub(acc, v))
    ELSE Fail("runtime_assert")

RECURSIVE evaluate(_, _, _, _)
RECURSIVE tree_loop(_, _, _, _, _, _, _)

\* The for loop of evaluate_tree from element k on, and the assertion after
\* it.
tree_loop(data, k, last_op, acc, L, G, P) ==
    IF k > Len(data)
    THEN (IF last_op = "END" THEN Ok(acc) ELSE Fail("runtime_assert"))
    ELSE LET v == evaluate(data[k][1], L, G, P)
         IN  IF v[1] # "ok" THEN v
             ELSE LET r == tree_step(last_op, acc, v[2])
                  IN  IF r[1] # "ok" THEN r
                      ELSE tree_loop(data, k + 1, data[k][2], r[2], L, G, P)

\* Evaluator::evaluate_tree
evaluate_tree(data, L, G, P) ==
    tree_loop(data, 1, "ADD", Zeros(TargetLimbs), L, G, P)

\* Evaluator::evaluate
evaluate(i, L, G, P) ==
    IF i[1] = "Int" THEN Ok(i[2])
    ELSE IF i[1] = "Str" THEN get_symbol_position(i[2], L, G)
    ELSE IF i[1] = "Rel"
    THEN LET v == evaluate(i[3], L, G, P)
         IN  IF v[1] # "ok" THEN v
             ELSE IF i[2] = "HI" THEN Ok(split_hi(v[2]))
             ELSE IF i[2] = "LO" THEN Ok(split_lo(v[2]))
             ELSE IF i[2] = "PCREL_HI" THEN Ok(pcrel_hi(v[2], P))
             ELSE IF i[2] = "PCREL_LO" THEN Ok(pcrel_lo(v[2], P))
             ELSE Fail("runtime_assert")
    ELSE evaluate_tree(i[2], L, G, P)

\* AUIPC sets rd = pc + (imm << 12); ADDI sets rd = rs1 + sext(imm[11:0]).
exec_auipc(at_pc, immediate) == Add(at_pc, Shl12(immediate))
exec_addi(rs1, immediate) == Add(rs1, SExt12(immediate))

\* The inputs of the evaluator.
SampleInts == {0 - 4, 0, 4, 2048, 4096}
Words == {FromInt(z, TargetLimbs) : z \in SampleInts}
SymbolNames == {"a", "b", "c"}
Locations == {FromInt(z, TargetLimbs) : z \in {4, 2048, 4096}}
LocalTables == {{}} \cup {{<<"a", w>>} : w \in Locations}
GlobalTables == {{}, {<<"b", FromInt(4, TargetLimbs)>>}}
                \cup {{<<"a", w>>, <<"b", FromInt(4, TargetLimbs)>>} : w \in Locations}
Positions == {FromNat(p, SizeLimbs) : p \in {0, 4, 4100}}

Leaves == {<<"Int", w>> : w \in Words} \cup {<<"Str", n>> : n \in SymbolNames}
TreeLeaves == {<<"Int", FromInt(z, TargetLimbs)>> : z \in {0 - 4, 4}}
              \cup {<<"Str", n>> : n \in {"a", "c"}}
Operands == {"HI", "LO", "PCREL_HI", "PCREL_LO"}
Operators == {"ADD", "SUB", "END"}
TreeData == UNION {[1..n -> TreeLeaves \X Operators] : n \in 0..MaxTreeLen}
Immediates == Leaves
              \cup {<<"Rel", o, l>> : o \in Operands, l \in Leaves}
              \cup {<<"Tree", d>> : d \in TreeData}

EvalInit ==
    /\ epc = "idle"
    /\ global_table \in GlobalTables
    /\ local_table = <<>>
    /\ position = <<>>
    /\ imm = <<>> /\ value = <<>> /\ sym = "" /\ hi_val = <<>> /\ lo_val = <<>>
    /\ pos_a = <<>> /\ pos_b = <<>> /\ rd = <<>>

OnlyEval == UNCHANGED <<mainVars, splitVars>>

NoPair == UNCHANGED <<sym, hi_val, lo_val, pos_a, pos_b, rd>>

\* Evaluator::set_local, called by the linker when it turns to a file.
set_local ==
    /\ epc \in {"idle", "evaluated"}
    /\ \E t \in LocalTables : local_table' = <<t>>
    /\ epc' = "idle"
    /\ imm' = <<>> /\ value' = <<>>
    /\ NoPair /\ OnlyEval
    /\ UNCHANGED <<global_table, position>>

\* Evaluator::set_position, called by the linker for each instruction.
set_position ==
    /\ epc \in {"idle", "evaluated"}
    /\ \E p \in Positions : position' = p
    /\ epc' = "idle"
    /\ imm' = <<>> /\ value' = <<>>
    /\ NoPair /\ OnlyEval
    /\ UNCHANGED <<global_table, local_table>>

\* The linker evaluates the immediate of the instruction at `position`.
Evaluate ==
    /\ epc = "idle"
    /\ local_table # <<>> /\ position # <<>>
    /\ \E i \in Immediates :
         /\ imm' = i
         /\ value' = evaluate(i, local_table[1], global_table, position)
    /\ epc' = "evaluated"
    /\ NoPair /\ OnlyEval
    /\ UNCHANGED <<global_table, local_table, position>>

\* The linker resolves `AUIPC rd, PCREL_HI(s)` at address pa.
LinkAuipc ==
    /\ epc = "idle"
    /\ local_table # <<>>
    /\ \E s \in SymbolNames, pa \in Positions :
         /\ sym' = s
         /\ pos_a' = pa
         /\ position' = pa
         /\ hi_val' = evaluate(<<"Rel", "PCREL_HI", <<"Str", s>>>>,
                               local_table[1], global_table, pa)
    /\ epc' = IF hi_val'[1] = "ok" THEN "have_hi" ELSE "link_panic"
    /\ imm' = <<>> /\ value' = <<>>
    /\ OnlyEval
    /\ UNCHANGED <<global_table, local_table, lo_val, pos_b, rd>>

\* The linker resolves `ADDI rd, rd, PCREL_LO(s)` at address pb.
LinkAddi ==
    /\ epc = "have_hi"
    /\ \E pb \in Positions \ {pos_a} :
         /\ pos_b' = pb
         /\ position' = pb
         /\ lo_val' = evaluate(<<"Rel", "PCREL_LO", <<"Str", sym>>>>,
                               local_table[1], global_table, pb)
    /\ epc' = "linked"
    /\ OnlyEval
    /\ UNCHANGED <<global_table, local_table, imm, value, sym, hi_val, pos_a, rd>>

\* The interpreter executes the AUIPC at pa.
ExecAuipc ==
    /\ epc = "linked"
    /\ rd' = exec_auipc(Trunc(pos_a, TargetLimbs), hi_val[2])
    /\ epc' = "auipc_done"
    /\ OnlyEval
    /\ UNCHANGED <<global_table, local_table, position, imm, value, sym, hi_val,
                   lo_val, pos_a, pos_b>>

\* The interpreter executes the ADDI at pb.
ExecAddi ==
    /\ epc = "auipc_done"
    /\ rd' = exec_addi(rd, lo_val[2])
    /\ epc' = "addi_done"
    /\ OnlyEval
    /\ UNCHANGED <<global_table, local_table, position, imm, value, sym, hi_val,
                   lo_val, pos_a, pos_b>>

----------------------------------------------------------------------------
(* The assembler's helpers (include/assembly/helper.h).  A string_view is  *)
(* a sequence of one-character strings.                                    *)

isspace(c) == c = " "

\* find_first_of(c): the index of the first c, 0 for npos.
find_first_of(str, c) ==
    IF \E k \in 1..Len(str) : str[k] = c
    THEN CHOOSE k \in 1..Len(str) : str[k] = c /\ \A j \in 1..(k - 1) : str[j] # c
    ELSE 0

RECURSIVE remove_front_whitespace(_)
remove_front_whitespace(str) ==
    IF str # <<>> /\ isspace(Head(str))
    THEN remove_front_whitespace(Tail(str))
    ELSE str

RECURSIVE remove_back_whitespace(_)
remove_back_whitespace(str) ==
    IF str # <<>> /\ isspace(str[Len(str)])
    THEN remove_back_whitespace(SubSeq(str, 1, Len(str) - 1))
    ELSE str

contain_no_token(str) ==
    LET tmp == remove_front_whitespace(str)
    IN  tmp = <<>> \/ Head(tmp) = "#"

\* remove_comments_when_no_string: FailToParse on a '"', else the text
\* before the first '#'.
remove_comments_when_no_string(str) ==
    IF find_first_of(str, "\"") # 0 THEN <<"FailToParse", <<>>>>
    ELSE LET pos == find_first_of(str, "#")
         IN  <<"ok", SubSeq(str, 1, IF pos = 0 THEN Len(str) ELSE pos - 1)>>

\* The while loop of split_command<N>, N >= 2, with i tokens in ret.
RECURSIVE split_loop(_, _, _)
split_loop(N, str, tokens) ==
    LET pos == find_first_of(str, ",")
    IN  IF pos = 0 THEN <<"FailToParse", <<>>>>
        ELSE LET head == Append(tokens, remove_back_whitespace(SubSeq(str, 1, pos - 1)))
                 rest == remove_front_whitespace(SubSeq(str, pos + 1, Len(str)))
             IN  IF Len(head) = N - 1
                 THEN <<"ok", Append(head, remove_back_whitespace(rest))>>
                 ELSE split_loop(N, rest, head)

\* split_command<N>(str): <<"ok", the N tokens>> or <<"FailToParse", <<>>>>.
split_command(N, str) ==
    IF N = 0
    THEN (IF contain_no_token(str) THEN <<"ok", <<>>>> ELSE <<"FailToParse", <<>>>>)
    ELSE LET cut == remove_comments_when_no_string(str)
         IN  IF cut[1] # "ok" THEN cut
             ELSE LET body == remove_front_whitespace(cut[2])
                  IN  IF N = 1 THEN <<"ok", <<remove_back_whitespace(body)>>>>
                      ELSE split_loop(N, body, <<>>)

Chars == {"a", " ", ",", "#", "\""}
Lines == UNION {[1..n -> Chars] : n \in 0..MaxLen}

SplitInit ==
    /\ spc = "call"
    /\ line \in Lines
    /\ cmd_n \in 0..MaxN
    /\ ret = <<>>

\* A call of split_command<cmd_n>(line).
SplitCommand ==
    /\ spc = "call"
    /\ ret' = split_command(cmd_n, line)
    /\ spc' = "done"
    /\ UNCHANGED <<line, cmd_n, mainVars, evalVars>>

\* std::isalnum on the characters of the model's alphabet: a letter and a
\* digit.
isalnum(c) == c \in {"a", "1"}

\* is_label_char: alphanumeric or one of _ . @
is_label_char_loose(c) == isalnum(c) \/ c \in {"_", ".", "@", "-"}

is_label_char(c) == isalnum(c) \/ c = "_" \/ c = "." \/ c = "@"

\* is_valid_label: no character of str fails is_label_char.
is_valid_label(str) == \A k \in 1..Len(str) : is_label_char(str[k])

\* start_with_label(str): <<"label", the label>>, <<"nullopt", <<>>>> or
\* <<"FailToParse", <<>>>>.  find_first_of gives 0 for npos, which the code
\* holds as the largest std::size_t.
start_with_label(str) ==
    LET pos1 == find_first_of(str, "\"")
        pos2 == find_first_of(str, ":")
    IN  IF pos2 # 0 /\ (pos1 = 0 \/ pos2 < pos1)
        THEN LET label == SubSeq(str, 1, pos2 - 1)
                 rest == SubSeq(str, pos2 + 1, Len(str))
             IN  IF ~is_valid_label(label) THEN <<"FailToParse", <<>>>>
                 ELSE IF ~contain_no_token(rest) THEN <<"FailToParse", <<>>>>
                 ELSE <<"label", label>>
        ELSE <<"nullopt", <<>>>>

LabelChars == {"a", "1", "_", ".", "@", "-", " ", ":", "#", "\""}
LabelLines == UNION {[1..n -> LabelChars] : n \in 0..MaxLen}

LabelInit ==
    /\ spc = "label_call"
    /\ line \in LabelLines
    /\ cmd_n = 0
    /\ ret = <<>>

\* A call of start_with_label(line).
StartWithLabel ==
    /\ spc = "label_call"
    /\ ret' = start_with_label(line)
    /\ spc' = "label_done"
    /\ UNCHANGED <<line, cmd_n, mainVars, evalVars>>

----------------------------------------------------------------------------
(* The specifications.                                                     *)

Next ==
    \/ Assemble
    \/ Link
    \/ CheckMain
    \/ CheckNoOverlap
    \/ CallAssemble
    \/ CallLink
    \/ SimulateInit
    \/ LoopTest
    \/ ManagerTest
    \/ IFetch
    \/ Exec
    \/ TleCheck
    \/ CatchFailToInterpret
    \/ PrintDetails
    \/ CatchPanic
    \/ MainReturn

EvalIdle ==
    /\ epc = "off" /\ global_table = {} /\ local_table = <<>> /\ position = <<>>
    /\ imm = <<>> /\ value = <<>> /\ sym = "" /\ hi_val = <<>> /\ lo_val = <<>>
    /\ pos_a = <<>> /\ pos_b = <<>> /\ rd = <<>>

SplitIdle == spc = "off" /\ line = <<>> /\ cmd_n = 0 /\ ret = <<>>

MainIdle ==
    /\ pc = "off" /\ nfiles = 0 /\ mode = "none" /\ cfg_timeout = <<>>
    /\ assembled = 0 /\ result = <<>> /\ memory_layout = <<>> /\ rf_pc = NoPc
    /\ timeout = <<>> /\ advance_false = FALSE /\ tested = 0 /\ fetched = 0
    /\ executed = 0 /\ exc = "none" /\ message = "none" /\ exit_code = "none"

Init == MainInit /\ EvalIdle /\ SplitIdle
Spec == Init /\ [][Next]_vars

InitEval == MainIdle /\ EvalInit /\ SplitIdle
NextEval ==
    \/ set_local
    \/ set_position
    \/ Evaluate
    \/ LinkAuipc
    \/ LinkAddi
    \/ ExecAuipc
    \/ ExecAddi
SpecEval == InitEval /\ [][NextEval]_vars

InitSplit == MainIdle /\ EvalIdle /\ SplitInit
NextSplit == SplitCommand
SpecSplit == InitSplit /\ [][NextSplit]_vars

InitLabel == MainIdle /\ EvalIdle /\ LabelInit
NextLabel == StartWithLabel
SpecLabel == InitLabel /\ [][NextLabel]_vars

----------------------------------------------------------------------------
(* Properties of the driver.                                               *)

\* The run never stopped on its own: advance() never returned false and no
\* FailToInterpret was raised.
NeverStops == ~advance_false /\ pc # "catch_fti" /\ message # "FailToInterpret"

\* C1: with initial timeout N, a program that never stops on its own has
\* exactly N instructions fetched and executed, the loop then ends in the
\* "Time Limit Exceeded" panic, and no (N+1)-th instruction is fetched.
C1_TimeoutExact ==
    /\ \A n \in 0..MaxTimeout :
         cfg_timeout = FromNat(n, SizeLimbs) => fetched <= n /\ executed <= n
    /\ (pc = "tle_check" /\ NeverStops) =>
         /\ tle_cond(timeout)
         /\ FromNat(executed, SizeLimbs) = cfg_timeout
         /\ fetched = executed
    /\ (message = "Time Limit Exceeded" /\ NeverStops) =>
         /\ FromNat(executed, SizeLimbs) = cfg_timeout
         /\ fetched = executed

C1_Witness ==
    /\ pc = "panic"
    /\ message = "Time Limit Exceeded"
    /\ NeverStops
    /\ cfg_timeout = FromNat(MaxTimeout, SizeLimbs)
    /\ executed = MaxTimeout

\* The run ended by a panic or a trap.
Failed == exc # "none"

\* C2: the process exit code is 0 when the run ends normally and non-zero
\* when a stage panicked or the interpreter trapped.
C2_ExitCode ==
    pc = "exited" => (IF Failed THEN exit_code # 0 ELSE exit_code = 0)

SectionOrder == <<"text", "data", "rodata", "bss">>

\* end(prev) <= start(next) for the sections in their canonical order.
Ordered(r) ==
    \A i \in 1..(Len(SectionOrder) - 1) :
        r[SectionOrder[i]].start + r[SectionOrder[i]].size
            <= r[SectionOrder[i + 1]].start

Simulating ==
    pc \in {"loop_test", "manager_test", "ifetch", "exec", "tle_check",
            "catch_fti", "print_details", "return"}

NothingSimulated ==
    /\ ~Simulating
    /\ rf_pc = NoPc /\ timeout = <<>>
    /\ tested = 0 /\ fetched = 0 /\ executed = 0

\* C5: the image that is interpreted has its sections in order without
\* overlap; a link result with an overlap is rejected by a panic and is never
\* simulated.
C5_NoOverlap ==
    /\ memory_layout # <<>> => Ordered(memory_layout[1])
    /\ (Simulating \/ rf_pc # NoPc) => memory_layout # <<>>
    /\ (result # <<>> /\ ~Ordered(result[1])) =>
         /\ NothingSimulated
         /\ memory_layout = <<>>
         /\ pc = "exited" => exc = "PanicError"

C5_Witness ==
    /\ pc = "exec"
    /\ executed >= 1
    /\ memory_layout[1].text.size >= 1
    /\ memory_layout[1].data.size >= 1
    /\ memory_layout[1].data.start = memory_layout[1].text.start + memory_layout[1].text.size

NoMain(r) == \A e \in r.position_table : e[1] # "main"

\* C6: without an entry for main the run panics with "No main function
\* found" before anything is fetched or executed; and when simulation starts
\* the program counter is position_table["main"].
C6_MainEntry ==
    /\ (result # <<>> /\ NoMain(result[1])) =>
         /\ NothingSimulated
         /\ pc = "ctor_check_main"
            \/ (exc = "PanicError" /\ message = "No main function found")
    /\ (pc = "loop_test" /\ fetched = 0 /\ executed = 0) =>
         /\ memory_layout # <<>>
         /\ <<"main", rf_pc>> \in memory_layout[1].position_table

C6_Witness ==
    /\ pc = "exited"
    /\ message = "No main function found"
    /\ result # <<>>
    /\ result[1].position_table # {}

\* State part of C7: a link result exists only when every file is assembled,
\* and simulation only on a linked image.
C7_State ==
    /\ result # <<>> => assembled = nfiles
    /\ memory_layout # <<>> => result # <<>>
    /\ (Simulating \/ rf_pc # NoPc) => memory_layout # <<>>

\* Step part of C7: a file is assembled only before linking, the linker runs
\* only once every file is assembled and nothing is simulated yet, simulation
\* steps leave the earlier stages' products alone, and after a panic no stage
\* does anything.
C7_Step ==
    /\ assembled' # assembled => result = <<>> /\ NothingSimulated
    /\ result' # result => assembled = nfiles /\ result = <<>> /\ NothingSimulated
    /\ (fetched' # fetched \/ executed' # executed \/ tested' # tested
        \/ rf_pc' # rf_pc \/ timeout' # timeout) =>
         /\ result # <<>> /\ assembled = nfiles
         /\ UNCHANGED <<assembled, result, memory_layout>>
    /\ exc = "PanicError" =>
         UNCHANGED <<assembled, result, memory_layout, rf_pc, timeout, tested,
                     fetched, executed, exc, message>>

\* C7: the stages run strictly in the order assemble, link, simulate, and a
\* panic in one stage keeps every later stage from running.
C7_StageOrder == [](C7_State) /\ [][C7_Step]_vars

C7_Witness ==
    /\ pc = "exec"
    /\ nfiles = MaxFiles
    /\ assembled = nfiles
    /\ result # <<>>


\* C12: the simulation loop ends in exactly one of three ways: advance()
\* returned false (a clean end, no panic), the timeout ran out (the "Time
\* Limit Exceeded" panic), or a fetch or an executor raised FailToInterpret
\* (a panic with the trap's text).
C12_State ==
    /\ pc = "print_details" => advance_false
    /\ advance_false => exc = "none" /\ message = "none"
    /\ message = "Time Limit Exceeded" =>
         /\ ~advance_false
         /\ exc = "PanicError"
         /\ FromNat(executed, SizeLimbs) = cfg_timeout
    /\ exc = "FailToInterpret" => pc = "catch_fti" /\ ~advance_false
    /\ message = "FailToInterpret" => exc = "PanicError" /\ ~advance_false
    /\ mode = "normal" => tested = 0
    /\ mode = "debug" =>
         /\ tested \in {fetched, fetched + 1}
         /\ pc = "ifetch" => tested = fetched + 1
         /\ pc \in {"exec", "loop_test", "manager_test"} => tested = fetched

\* Once a trap is raised nothing more is fetched or executed, and the debug
\* manager is not consulted again.
C12_Step ==
    (exc = "FailToInterpret" \/ message = "FailToInterpret") =>
        /\ fetched' = fetched
        /\ executed' = executed
        /\ tested' = tested

\* C12: the loop ends by advance() returning false without a panic, by the
\* exhausted timeout with the "Time Limit Exceeded" panic, or by a
\* FailToInterpret with its panic, and in no other way; after a trap no
\* instruction is fetched or executed; the debug loop differs only by one
\* manager.test() before each fetch.
C12_LoopEnds == [](C12_State) /\ [][C12_Step]_vars

\* C13: for every initial timeout T, 0 and the largest std::size_t included,
\* a program that stops by advance() returning false after k <= T executed
\* instructions (k = 0 and k = T included) is not reported as "Time Limit
\* Exceeded".  The loop executes an instruction only after taking one from a
\* non-zero timeout, so k <= T whenever advance() returns false.
C13_NoFalseTimeout ==
    advance_false => message # "Time Limit Exceeded"

----------------------------------------------------------------------------
(* Properties of the evaluator.                                            *)

\* The address of the pair's symbol.
AddressOf(s) == evaluate(<<"Str", s>>, local_table[1], global_table, position)[2]

\* C3: after `AUIPC rd, PCREL_HI(s)` linked at pa and `ADDI rd, rd,
\* PCREL_LO(s)` linked at pb have both executed, rd is the address of s.
C3_PcrelPair == epc = "addi_done" => rd = AddressOf(sym)

\* (v - position + 0x800) >> 12, in the arithmetic of the code.
BiasedHi(v, P) ==
    Trunc(Shr12(Add(Sub(ZExt(v, SizeLimbs), P), FromNat(Half12, SizeLimbs))),
          TargetLimbs)

\* C4: Rel(PCREL_HI, inner) evaluates to (v - position + 0x800) >> 12, where
\* v is the value of inner.
C4_PcrelHiBias ==
    (epc = "evaluated" /\ imm[1] = "Rel" /\ imm[2] = "PCREL_HI" /\ value[1] = "ok")
    => value[2] = BiasedHi(evaluate(imm[3], local_table[1], global_table,
                                    position)[2], position)

\* A word as a signed 32-bit integer.
SignedVal(w) ==
    IF w[2] >= Base \div 2 THEN (w[2] - Base) * Base + w[1] ELSE w[2] * Base + w[1]

\* The last operator is END and no earlier one is.
WellFormed(d) ==
    /\ Len(d) >= 1
    /\ d[Len(d)][2] = "END"
    /\ \A k \in 1..(Len(d) - 1) : d[k][2] # "END"

\* The sign of element k: plus for the first, else by the operator before it.
SignOf(d, k) == IF k = 1 \/ d[k - 1][2] = "ADD" THEN 1 ELSE 0 - 1

RECURSIVE SignedSum(_, _, _)
SignedSum(d, subs, k) ==
    IF k = 0 THEN 0
    ELSE SignOf(d, k) * SignedVal(subs[k][2]) + SignedSum(d, subs, k - 1)

\* C8: a Tree evaluates to the sum, modulo 2^32, of its elements' values,
\* the first added and each later one added or subtracted by the operator
\* before it; it yields a value exactly when its last operator is END and no
\* earlier one is, and fails the assertion otherwise (the empty list too).
C8_TreeFold ==
    (epc = "evaluated" /\ imm[1] = "Tree") =>
      LET d == imm[2]
          subs == [k \in 1..Len(d) |->
                     evaluate(d[k][1], local_table[1], global_table, position)]
          all_ok == \A k \in 1..Len(d) : subs[k][1] = "ok"
      IN  /\ value[1] = "ok" =>
                /\ WellFormed(d) /\ all_ok
                /\ value[2] = FromInt(SignedSum(d, subs, Len(d)), TargetLimbs)
          /\ (WellFormed(d) /\ all_ok) => value[1] = "ok"
          /\ (~WellFormed(d) /\ all_ok) => value[1] = "runtime_assert"

C8_Witness ==
    /\ epc = "evaluated"
    /\ imm[1] = "Tree"
    /\ Len(imm[2]) = MaxTreeLen
    /\ imm[2][1][2] = "SUB"
    /\ imm[2][1][1][1] = "Int"
    /\ imm[2][2][1][1] = "Str"
    /\ value[1] = "ok"
    /\ SignedVal(value[2]) < 0 - 4

\* C9: Sym(s) evaluates to the location s has in the current file's local
\* table when it is defined there, else to its location in the global
\* table, and panics with "Unknown symbol" when it is in neither.
C9_SymbolLookup ==
    (epc = "evaluated" /\ imm[1] = "Str") =>
      LET s == imm[2]
          locals == {e \in local_table[1] : e[1] = s}
          globals == {e \in global_table : e[1] = s}
      IN  /\ \A e \in locals : value = <<"ok", e[2]>>
          /\ locals = {} => \A e \in globals : value = <<"ok", e[2]>>
          /\ (locals = {} /\ globals = {}) => value = <<"Unknown symbol", <<>>>>

C9_Witness ==
    /\ epc = "evaluated"
    /\ imm[1] = "Str"
    /\ \E e \in local_table[1], g \in global_table :
         /\ e[1] = imm[2] /\ g[1] = imm[2]
         /\ e[2] # g[2]
         /\ value = <<"ok", e[2]>>

----------------------------------------------------------------------------
(* Properties of split_command.                                            *)

\* The text of a line before its comment.
BeforeComment(str) ==
    SubSeq(str, 1, IF find_first_of(str, "#") = 0 THEN Len(str)
                   ELSE find_first_of(str, "#") - 1)

\* The pieces of str between its commas.
RECURSIVE Pieces(_)
Pieces(str) ==
    IF find_first_of(str, ",") = 0 THEN <<str>>
    ELSE <<SubSeq(str, 1, find_first_of(str, ",") - 1)>>
         \o Pieces(SubSeq(str, find_first_of(str, ",") + 1, Len(str)))

Blank(str) == \A k \in 1..Len(str) : isspace(str[k])

\* The number of tokens of a line remainder: its non-blank comma-separated
\* pieces before the comment.
TokenCount(str) ==
    Cardinality({k \in 1..Len(Pieces(BeforeComment(str))) :
                    ~Blank(Pieces(BeforeComment(str))[k])})

Stripped(tok) == tok = <<>> \/ (~isspace(Head(tok)) /\ ~isspace(tok[Len(tok)]))

\* C10: split_command<N> returns exactly N whitespace-stripped tokens or
\* raises FailToParse; it raises whenever the remainder holds fewer than N
\* tokens (N = 1 with an empty or comment-only remainder too), and
\* split_command<0> raises unless the remainder holds no token.
C10_SplitCommand ==
    spc = "done" =>
      /\ ret[1] \in {"ok", "FailToParse"}
      /\ ret[1] = "ok" =>
           /\ Len(ret[2]) = cmd_n
           /\ \A k \in 1..Len(ret[2]) : Stripped(ret[2][k])
      /\ (cmd_n >= 1 /\ TokenCount(line) < cmd_n) => ret[1] = "FailToParse"
      /\ (cmd_n = 0 /\ TokenCount(line) # 0) => ret[1] = "FailToParse"

----------------------------------------------------------------------------
(* Properties of start_with_label.                                         *)

\* The characters of the model's alphabet a label may hold: the letter, the
\* digit and _ . @
LabelAlphabet == {"a", "1", "_", ".", "@"}

\* Only whitespace, optionally followed by a # comment.
BlankOrComment(str) ==
    \E k \in 0..Len(str) :
        /\ \A j \in 1..k : str[j] = " "
        /\ k = Len(str) \/ str[k + 1] = "#"

\* The first ':' of the line, when no '"' comes before it; 0 when there is
\* no such ':'.
LabelColon(str) ==
    IF \E k \in 1..Len(str) :
           str[k] = ":" /\ \A j \in 1..(k - 1) : str[j] \notin {":", "\""}
    THEN CHOOSE k \in 1..Len(str) :
           str[k] = ":" /\ \A j \in 1..(k - 1) : str[j] \notin {":", "\""}
    ELSE 0

\* C11: a label L that start_with_label returns holds only alphanumeric
\* characters and _ . @, is followed at once by ':' in the line, and the text
\* after that ':' is whitespace with at most a # comment; a line whose text
\* before the ':' or after it breaks this raises FailToParse.
C11_LabelValid ==
    spc = "label_done" =>
      /\ ret[1] \in {"label", "nullopt", "FailToParse"}
      /\ ret[1] = "label" =>
           /\ \A k \in 1..Len(ret[2]) : ret[2][k] \in LabelAlphabet
           /\ Len(line) > Len(ret[2])
           /\ SubSeq(line, 1, Len(ret[2])) = ret[2]
           /\ line[Len(ret[2]) + 1] = ":"
           /\ BlankOrComment(SubSeq(line, Len(ret[2]) + 2, Len(line)))
      /\ (/\ LabelColon(line) # 0
          /\ \/ \E k \in 1..(LabelColon(line) - 1) : line[k] \notin LabelAlphabet
             \/ ~BlankOrComment(SubSeq(line, LabelColon(line) + 1, Len(line))))
         => ret[1] = "FailToParse"
      /\ ret[1] = "nullopt" <=> LabelColon(line) = 0

C11_Witness ==
    /\ spc = "label_done"
    /\ ret[1] = "label"
    /\ Len(ret[2]) = 2
    /\ ret[2][2] = "."
    /\ line[Len(line)] = "#"

====
